---- MODULE Spec2Model ----
(***************************************************************************)
(* A model of package isoperiod (src/parse.go): the Period value, Parse,   *)
(* Period.String, Period.Next and the notification stream of               *)
(* Period.Start / Period.Stop.                                             *)
(*                                                                         *)
(* Five specifications share the variables:                                *)
(*   Spec         one Start() on a Period, the goroutine it spawns, a      *)
(*                consumer and concurrent Stop() calls                     *)
(*   SpecRestart  the same with Start() called again on the same Period    *)
(*   SpecParse    Parse applied to texts of the interval grammar           *)
(*   SpecFormat   String() followed by Parse and String() again            *)
(*   SpecNext     Next applied to a Period and a reference time            *)
(***************************************************************************)
EXTENDS Integers, Sequences, FiniteSets, TLC

VARIABLES
    r,              \* the Period the methods are called on (struct fields)
    nStarts,        \* number of Start() calls made so far
    pcG,            \* pcG[g]: position of the goroutine spawned by the g-th Start()
    amount,         \* amount[g]: the goroutine's local countdown
    selCh,          \* selCh[g]: the done channel its select is waiting on
    ticks,          \* ticks[g]: ticks the goroutine has processed
    delivered,      \* delivered[g]: timestamps received from its sender channel
    senderClosed,   \* the g whose sender channel has been closed
    doneClosed,     \* the done channels that have been closed
    pcO,            \* the consumer: "idle" or "recv" (blocked in <-c)
    recvOn,         \* the sender channel the consumer is receiving from
    pcS,            \* pcS[t]: position of thread t in Stop()
    sendCh,         \* sendCh[t]: the channel t's send statement is blocked on
    seen,           \* seen[t]: t is synchronised after the last write of r.running
    panic,          \* "none", or the run-time panic that ended the program
    stopCalls,      \* number of Stop() calls made so far
    stopCtx,        \* stopCtx[t]: the situation in which t's last Stop() was called
    stopRes,        \* stopRes[t]: how t's last Stop() call went
    observedClosed, \* the sender channels the consumer has seen closed
    stopReturned,   \* a Stop() called after Start() returned has returned
    lateDelivery,   \* a timestamp was delivered after such a Stop() returned
    phase,          \* what the pure specifications have done so far
    form,           \* the parts the text given to Parse was written from
    s,              \* the text given to Parse
    parsed,         \* what Parse returned: [err, p]
    given,          \* the Period as it was constructed
    str,            \* what r.String() returned
    str2,           \* what String() of the parsed Period returned
    now,            \* the reference time given to Next
    nextOut,        \* what Next returned
    calls           \* number of Next calls made

\* the variables of the stream other than the Period
runVars == <<nStarts, pcG, amount, selCh, ticks, delivered, senderClosed,
             doneClosed, pcO, recvOn, pcS, sendCh, seen, panic, stopCalls,
             stopCtx, stopRes, observedClosed, stopReturned, lateDelivery>>

streamVars == <<r, runVars>>

pureVars == <<phase, form, s, parsed, given, str, str2, now, nextOut, calls>>

vars == <<streamVars, pureVars>>

-----------------------------------------------------------------------------
(* Bounds *)

\* Repetitions of the started Period range over -1 .. MaxReps
MaxReps == 2
\* ticks one goroutine processes (only an unbounded stream reaches the cap)
MaxTicks == 3
\* Stop() calls in one run
MaxStops == 2
\* Start() calls in one run of SpecRestart
MaxStarts == 2
\* the components of a constructed Period range over 0 .. MaxComp (and one
\* larger value each, see Periods)
MaxComp == 1
\* Next calls on one Period
MaxCalls == 2

\* the threads that call methods of the Period: the owner calls Start(), reads
\* the returned channel and calls Stop(); the other thread only calls Stop()
Threads == {"owner", "other"}

-----------------------------------------------------------------------------
(* The Period value *)

\* time.Hour, time.Minute and time.Second, in seconds
Hour == 3600
Minute == 60
Second == 1

\* New: the struct built from its arguments (done is nil: 0, running is false)
New(repitions, year, month, day, hour, minute, second) ==
    [Repetitions |-> repitions, Year |-> year, Month |-> month, Day |-> day,
     Hour |-> hour, Minute |-> minute, Second |-> second,
     time |-> hour * Hour + minute * Minute + second * Second,
     done |-> 0, running |-> FALSE]

-----------------------------------------------------------------------------
(* Parse: the compiled pattern                                             *)
(*   (R)?(\d+)?/?P(\d+Y)?(\d+M)?(\d+D)?(T)?(\d+H)?(\d+M)?(\d+S)?           *)
(* A text is a sequence of one-character strings.                          *)

IsDigit(c) == c \in {"0", "1", "2", "3", "4", "5", "6", "7", "8", "9"}

\* the text has the character c at position i
Lit(t, i, c) == i <= Len(t) /\ t[i] = c

\* \d+ is greedy: the first position from i on that holds no digit
DigitsEnd(t, i) ==
    CHOOSE j \in i..(Len(t) + 1) :
        /\ j = Len(t) + 1 \/ ~IsDigit(t[j])
        /\ \A k \in i..(j - 1) : IsDigit(t[k])

\* an optional literal group, (R)? or (T)?, tried at position i
LitGroup(t, i, c) ==
    IF Lit(t, i, c) THEN [m |-> <<c>>, to |-> i + 1] ELSE [m |-> <<>>, to |-> i]

\* an optional group (\d+X)? tried at position i: it takes the digits and the
\* unit letter when they are there and is empty otherwise
UnitGroup(t, i, unit) ==
    LET j == DigitsEnd(t, i)
    IN  IF j > i /\ Lit(t, j, unit)
          THEN [m |-> SubSeq(t, i, j), to |-> j + 1]
          ELSE [m |-> <<>>, to |-> i]

\* the groups after the P, (\d+Y)?(\d+M)?(\d+D)?(T)?(\d+H)?(\d+M)?(\d+S)?, by
\* their last character
GroupUnits == <<"Y", "M", "D", "T", "H", "M", "S">>

\* the k-th of these groups tried at position i
Group(t, i, k) ==
    IF GroupUnits[k] = "T" THEN LitGroup(t, i, "T")
    ELSE UnitGroup(t, i, GroupUnits[k])

\* the groups from the k-th on, each tried where the one before it ended:
\* every group is optional and is taken when it can be
RECURSIVE Groups(_, _, _)
Groups(t, i, k) ==
    IF k > Len(GroupUnits) THEN [ms |-> <<>>, to |-> i]
    ELSE LET g == Group(t, i, k)
             rest == Groups(t, g.to, k + 1)
         IN  [ms |-> <<g.m>> \o rest.ms, to |-> rest.to]

\* the submatches 0..9 of a match that starts at i with the groups g1 = (R)?
\* and g2 = (\d+)?, the P at position p0 and the groups gs after it
Submatches(t, i, g1, g2, gs) ==
    [k \in 0..9 |-> IF k = 0 THEN SubSeq(t, i, gs.to - 1)
                    ELSE IF k = 1 THEN g1
                    ELSE IF k = 2 THEN g2
                    ELSE gs.ms[k - 2]]

\* after (R)? ended at j1: (\d+)?/?P and the groups; <<>> without the P
MatchFrom(t, i, g1, j1) ==
    LET j2 == DigitsEnd(t, j1)
        p0 == IF Lit(t, j2, "/") THEN j2 + 1 ELSE j2
    IN  IF ~Lit(t, p0, "P") THEN <<>>
        ELSE Submatches(t, i, g1, SubSeq(t, j1, j2 - 1), Groups(t, p0 + 1, 1))

\* the pattern tried at position i: the submatches 0..9, or <<>> when it does
\* not match there. Up to the P nothing can be matched another way (an R, a
\* digit or a / that is skipped is not a P)
MatchAt(t, i) ==
    IF Lit(t, i, "R") THEN MatchFrom(t, i, <<"R">>, i + 1)
    ELSE MatchFrom(t, i, <<>>, i)

\* compiler.FindStringSubmatch: the match that starts leftmost (the pattern is
\* not anchored), or <<>> when the text holds none
FindStringSubmatch(t) ==
    LET starts == {i \in 1..Len(t) : MatchAt(t, i) # <<>>}
    IN  IF starts = {} THEN <<>>
        ELSE MatchAt(t, CHOOSE i \in starts : \A k \in starts : i <= k)

-----------------------------------------------------------------------------
(* strconv.Atoi and strconv.Itoa on a 64-bit int *)

DigitOf(c) ==
    CASE c = "0" -> 0 [] c = "1" -> 1 [] c = "2" -> 2 [] c = "3" -> 3
      [] c = "4" -> 4 [] c = "5" -> 5 [] c = "6" -> 6 [] c = "7" -> 7
      [] c = "8" -> 8 [] c = "9" -> 9

CharOf(d) == <<"0", "1", "2", "3", "4", "5", "6", "7", "8", "9">>[d + 1]

\* the decimal digits of the largest int, 1<<63 - 1
MaxIntText == <<"9", "2", "2", "3", "3", "7", "2", "0", "3", "6",
                "8", "5", "4", "7", "7", "5", "8", "0", "7">>

RECURSIVE StripZeros(_)
StripZeros(ds) ==
    IF Len(ds) > 1 /\ ds[1] = "0" THEN StripZeros(Tail(ds)) ELSE ds

\* a > b for two numerals of the same length
RECURSIVE DigitsGreater(_, _)
DigitsGreater(a, b) ==
    IF a = <<>> THEN FALSE
    ELSE IF a[1] # b[1] THEN DigitOf(a[1]) > DigitOf(b[1])
    ELSE DigitsGreater(Tail(a), Tail(b))

\* the numeral does not fit an int
OutOfRange(ds) ==
    LET z == StripZeros(ds)
    IN  \/ Len(z) > Len(MaxIntText)
        \/ Len(z) = Len(MaxIntText) /\ DigitsGreater(z, MaxIntText)

RECURSIVE DigitsValue(_)
DigitsValue(ds) ==
    IF ds = <<>> THEN 0
    ELSE 10 * DigitsValue(SubSeq(ds, 1, Len(ds) - 1)) + DigitOf(ds[Len(ds)])

\* strconv.Atoi of a text without a sign
Atoi(ds) ==
    IF ds = <<>> \/ \E k \in 1..Len(ds) : ~IsDigit(ds[k])
      THEN [err |-> "invalid syntax", val |-> 0]
    ELSE IF OutOfRange(ds)
      THEN [err |-> "value out of range", val |-> 0]
    ELSE [err |-> "nil", val |-> DigitsValue(ds)]

\* strconv.Itoa of n >= 0
RECURSIVE Itoa(_)
Itoa(n) == IF n < 10 THEN <<CharOf(n)>> ELSE Itoa(n \div 10) \o <<CharOf(n % 10)>>

-----------------------------------------------------------------------------
(* Parse *)

\* matches[k] with its unit letter kept
NumeralWithUnit(m) == m
\* matches[k][:len(matches[k])-1]
Numeral(m) == SubSeq(m, 1, Len(m) - 1)

\* one component: Atoi of the numeral when the group matched, 0 otherwise
Field(m) == IF m # <<>> THEN Atoi(Numeral(m)) ELSE [err |-> "nil", val |-> 0]

\* the repetitions: -1 for an R, the numeral after it when there is one, and
\* 0 without an R
RepField(matches) ==
    IF matches[1] = <<"R">>
      THEN IF matches[2] # <<>> THEN Atoi(matches[2]) ELSE [err |-> "nil", val |-> -1]
      ELSE [err |-> "nil", val |-> 0]

\* the Period Parse returns for the seven conversions fs, or (nil, err) for
\* the first of them that failed, in the order repetitions, year, month, day,
\* hour, minute, second
ParseFields(fs, bad) ==
    IF bad # {}
      THEN [err |-> fs[CHOOSE k \in bad : \A j \in bad : k <= j].err, p |-> <<>>]
      ELSE [err |-> "nil",
            p |-> [Repetitions |-> fs[1].val, Year |-> fs[2].val,
                   Month |-> fs[3].val, Day |-> fs[4].val,
                   Hour |-> fs[5].val, Minute |-> fs[6].val,
                   Second |-> fs[7].val,
                   time |-> fs[5].val * Hour + fs[6].val * Minute
                            + fs[7].val * Second,
                   done |-> 0, running |-> FALSE]]

\* the conversions that failed
Failed(fs) == {k \in 1..7 : fs[k].err # "nil"}

\* Parse once the pattern has been applied
ParseMatches(matches) ==
    IF matches = <<>> THEN [err |-> "invalid repeat format", p |-> <<>>]
    ELSE LET fs == <<RepField(matches), Field(matches[3]), Field(matches[4]),
                     Field(matches[5]), Field(matches[7]), Field(matches[8]),
                     Field(matches[9])>>
         IN  ParseFields(fs, Failed(fs))

Parse(t) == ParseMatches(FindStringSubmatch(t))

-----------------------------------------------------------------------------
(* String *)

\* the repetition prefix
RepPrefix(p) ==
    IF p.Repetitions = 0 THEN <<"R", "/">>
    ELSE IF p.Repetitions > 0 THEN <<"R">> \o Itoa(p.Repetitions) \o <<"/">>
    ELSE <<>>

\* a component is written only when it is greater than zero
Comp(v, unit) == IF v > 0 THEN Itoa(v) \o <<unit>> ELSE <<>>

String(p) ==
    LET date == Comp(p.Year, "Y") \o Comp(p.Month, "M") \o Comp(p.Day, "D")
        clock == Comp(p.Hour, "H") \o Comp(p.Minute, "M") \o Comp(p.Second, "S")
        timeAdded == date # <<>> \/ clock # <<>>
    IN  RepPrefix(p) \o <<"P">> \o date
          \o (IF clock # <<>> THEN <<"T">> \o clock ELSE <<>>)
          \o (IF ~timeAdded THEN <<"T", "0", "S">> ELSE <<>>)

-----------------------------------------------------------------------------
(* Next, over time.Time in UTC: a time is the day counted from January 1 of  *)
(* year 1 and the second of that day; time.Time{} is day 0, second 0.       *)

ZeroTime == [day |-> 0, sec |-> 0]

IsLeap(y) == (y % 4) = 0 /\ ((y % 100) # 0 \/ (y % 400) = 0)

\* days from January 1 of year 1 to January 1 of year y
DaysBeforeYear(y) ==
    365 * (y - 1) + (y - 1) \div 4 - (y - 1) \div 100 + (y - 1) \div 400

\* days from January 1 to the first of month m in a year that is not leap
DaysBeforeMonth(m) ==
    <<0, 31, 59, 90, 120, 151, 181, 212, 243, 273, 304, 334, 365>>[m]

\* the day number of the first of month m of year y
MonthStart(y, m) ==
    DaysBeforeYear(y) + DaysBeforeMonth(m) + (IF m > 2 /\ IsLeap(y) THEN 1 ELSE 0)

\* time.Date(y, m, d, ...) normalises: months beyond 1..12 carry into the
\* year, days beyond the month carry into the following months
Date(y, m, d, sec) ==
    LET yy == y + (m - 1) \div 12
        mm == ((m - 1) % 12) + 1
    IN  [day |-> MonthStart(yy, mm) + d - 1, sec |-> sec]

\* t.Date(): the year, month and day of a time
Civil(t) ==
    LET y == CHOOSE yy \in (t.day \div 366 + 1)..(t.day \div 365 + 1) :
                 DaysBeforeYear(yy) <= t.day /\ t.day < DaysBeforeYear(yy + 1)
        m == CHOOSE mm \in 1..12 :
                 /\ MonthStart(y, mm) <= t.day
                 /\ mm < 12 => t.day < MonthStart(y, mm + 1)
    IN  [year |-> y, month |-> m, day |-> t.day - MonthStart(y, m) + 1]

\* t.AddDate(years, months, days)
AddDate(t, years, months, days) ==
    LET c == Civil(t)
    IN  Date(c.year + years, c.month + months, c.day + days, t.sec)

\* t.Add(d), d in seconds
Add(t, d) ==
    [day |-> t.day + (t.sec + d) \div 86400, sec |-> (t.sec + d) % 86400]

\* Next with the test Repetitions == 0 read as Repetitions <= 0
PeriodNextNoForever(p, t) ==
    [ret |-> IF p.Repetitions <= 0 THEN ZeroTime
             ELSE Add(AddDate(t, p.Year, p.Month, p.Day),
                      Hour * p.Hour + Minute * p.Minute + Second * p.Second),
     r |-> p]

\* r.Next(now): the time returned, and the Period after the call (Next assigns
\* to no field of it)
PeriodNext(p, t) ==
    [ret |-> IF p.Repetitions = 0 THEN ZeroTime
             ELSE Add(AddDate(t, p.Year, p.Month, p.Day),
                      Hour * p.Hour + Minute * p.Minute + Second * p.Second),
     r |-> p]

-----------------------------------------------------------------------------
(* Start: the goroutine *)

Gs == 1..nStarts

ExitPath == {"d_running", "d_closeDone", "d_closeSender", "exited"}

\* Start's body: sender and r.done are made, amount := r.Repetitions, the
\* goroutine is spawned and the sender channel returned
StartBody ==
    /\ panic = "none"
    /\ UNCHANGED pureVars
    /\ pcO = "idle" /\ pcS["owner"] = "idle"
    /\ nStarts' = nStarts + 1
    /\ r' = [r EXCEPT !.done = nStarts + 1]
    /\ pcG' = Append(pcG, "start")
    /\ amount' = Append(amount, r.Repetitions)
    /\ selCh' = Append(selCh, 0)
    /\ ticks' = Append(ticks, 0)
    /\ delivered' = Append(delivered, 0)
    /\ UNCHANGED <<senderClosed, doneClosed, pcO, recvOn, pcS, sendCh, seen,
                   panic, stopCalls, stopCtx, stopRes, observedClosed,
                   stopReturned, lateDelivery>>

\* the first Start() on the Period
Start == nStarts = 0 /\ StartBody

\* Start() called again on a Period that was started before
StartAgain == nStarts >= 1 /\ nStarts < MaxStarts /\ StartBody

\* r.running = true, the first statement of the goroutine, which then enters
\* the select (evaluating r.done)
GoRunning(g) ==
    /\ panic = "none"
    /\ UNCHANGED pureVars
    /\ pcG[g] = "start"
    /\ r' = [r EXCEPT !.running = TRUE]
    /\ seen' = [t \in Threads |-> FALSE]
    /\ pcG' = [pcG EXCEPT ![g] = "select"]
    /\ selCh' = [selCh EXCEPT ![g] = r.done]
    /\ UNCHANGED <<nStarts, amount, ticks, delivered, senderClosed, doneClosed,
                   pcO, recvOn, pcS, sendCh, panic, stopCalls, stopCtx, stopRes,
                   observedClosed, stopReturned, lateDelivery>>

\* case t := <-ticker.C
SelectTick(g) ==
    /\ panic = "none"
    /\ UNCHANGED pureVars
    /\ pcG[g] = "select"
    /\ ticks[g] < MaxTicks
    /\ pcG' = [pcG EXCEPT ![g] = "emit"]
    /\ UNCHANGED <<r, nStarts, amount, selCh, ticks, delivered, senderClosed,
                   doneClosed, pcO, recvOn, pcS, sendCh, seen, panic, stopCalls,
                   stopCtx, stopRes, observedClosed, stopReturned, lateDelivery>>

\* if amount > 0 { amount-- }
CountdownKeep(a) == a
Countdown(a) == IF a > 0 THEN a - 1 ELSE a

\* the tick branch: the non-blocking send on sender (received only by a
\* consumer blocked in the receive), the countdown, and the test amount == 0
Emit(g) ==
    /\ panic = "none"
    /\ UNCHANGED pureVars
    /\ pcG[g] = "emit"
    /\ IF pcO = "recv" /\ recvOn = g
         THEN /\ delivered' = [delivered EXCEPT ![g] = @ + 1]
              /\ pcO' = "idle"
              /\ seen' = [seen EXCEPT !["owner"] = TRUE]
              /\ lateDelivery' = (lateDelivery \/ stopReturned)
         ELSE UNCHANGED <<delivered, pcO, seen, lateDelivery>>
    /\ ticks' = [ticks EXCEPT ![g] = @ + 1]
    /\ amount' = [amount EXCEPT ![g] = Countdown(@)]
    /\ IF amount'[g] = 0
         THEN /\ pcG' = [pcG EXCEPT ![g] = "sigdone"]
              /\ UNCHANGED selCh
         ELSE /\ pcG' = [pcG EXCEPT ![g] = "select"]
              /\ selCh' = [selCh EXCEPT ![g] = r.done]
    /\ UNCHANGED <<r, nStarts, senderClosed, doneClosed, recvOn, pcS, sendCh,
                   panic, stopCalls, stopCtx, stopRes, observedClosed,
                   stopReturned>>

\* the goroutines blocked in a select that receives from done channel c
Waiting(c) == {h \in Gs : pcG[h] = "select" /\ selCh[h] = c}

\* select { case r.done <- true: default: } and return: the send panics on a
\* closed channel, is received by a goroutine waiting on r.done, or is dropped
SigDone(g) ==
    /\ panic = "none"
    /\ UNCHANGED pureVars
    /\ pcG[g] = "sigdone"
    /\ IF r.done \in doneClosed
         THEN /\ panic' = "send on closed channel"
              /\ UNCHANGED pcG
         ELSE /\ UNCHANGED panic
              /\ IF Waiting(r.done) # {}
                   THEN \E h \in Waiting(r.done) :
                          pcG' = [pcG EXCEPT ![g] = "d_running", ![h] = "d_running"]
                   ELSE pcG' = [pcG EXCEPT ![g] = "d_running"]
    /\ UNCHANGED <<r, nStarts, amount, selCh, ticks, delivered, senderClosed,
                   doneClosed, pcO, recvOn, pcS, sendCh, seen, stopCalls,
                   stopCtx, stopRes, observedClosed, stopReturned, lateDelivery>>

\* case <-r.done, taken when the channel the select waits on has been closed
RecvClosed(g) ==
    /\ panic = "none"
    /\ UNCHANGED pureVars
    /\ pcG[g] = "select"
    /\ selCh[g] \in doneClosed
    /\ pcG' = [pcG EXCEPT ![g] = "d_running"]
    /\ UNCHANGED <<r, nStarts, amount, selCh, ticks, delivered, senderClosed,
                   doneClosed, pcO, recvOn, pcS, sendCh, seen, panic, stopCalls,
                   stopCtx, stopRes, observedClosed, stopReturned, lateDelivery>>

\* defer func() { r.running = false }()
DeferRunning(g) ==
    /\ panic = "none"
    /\ UNCHANGED pureVars
    /\ pcG[g] = "d_running"
    /\ r' = [r EXCEPT !.running = FALSE]
    /\ seen' = [t \in Threads |-> FALSE]
    /\ pcG' = [pcG EXCEPT ![g] = "d_closeDone"]
    /\ UNCHANGED <<nStarts, amount, selCh, ticks, delivered, senderClosed,
                   doneClosed, pcO, recvOn, pcS, sendCh, panic, stopCalls,
                   stopCtx, stopRes, observedClosed, stopReturned, lateDelivery>>

\* defer close(r.done): closing a closed channel panics
DeferCloseDone(g) ==
    /\ panic = "none"
    /\ UNCHANGED pureVars
    /\ pcG[g] = "d_closeDone"
    /\ IF r.done \in doneClosed
         THEN /\ panic' = "close of closed channel"
              /\ UNCHANGED <<doneClosed, pcG>>
         ELSE /\ doneClosed' = doneClosed \cup {r.done}
              /\ pcG' = [pcG EXCEPT ![g] = "d_closeSender"]
              /\ UNCHANGED panic
    /\ UNCHANGED <<r, nStarts, amount, selCh, ticks, delivered, senderClosed,
                   pcO, recvOn, pcS, sendCh, seen, stopCalls, stopCtx, stopRes,
                   observedClosed, stopReturned, lateDelivery>>

\* defer close(sender), then ticker.Stop() and timeout.Stop()
DeferCloseSender(g) ==
    /\ panic = "none"
    /\ UNCHANGED pureVars
    /\ pcG[g] = "d_closeSender"
    /\ senderClosed' = senderClosed \cup {g}
    /\ pcG' = [pcG EXCEPT ![g] = "exited"]
    /\ UNCHANGED <<r, nStarts, amount, selCh, ticks, delivered, doneClosed,
                   pcO, recvOn, pcS, sendCh, seen, panic, stopCalls, stopCtx,
                   stopRes, observedClosed, stopReturned, lateDelivery>>

-----------------------------------------------------------------------------
(* The consumer of the channel Start() returned *)

\* the owner blocks in a receive from the channel the g-th Start() returned
OwnerRecv(g) ==
    /\ panic = "none"
    /\ UNCHANGED pureVars
    /\ pcO = "idle" /\ pcS["owner"] = "idle"
    /\ pcO' = "recv"
    /\ recvOn' = g
    /\ UNCHANGED <<r, nStarts, pcG, amount, selCh, ticks, delivered,
                   senderClosed, doneClosed, pcS, sendCh, seen, panic, stopCalls,
                   stopCtx, stopRes, observedClosed, stopReturned, lateDelivery>>

\* the receive returns because the channel is closed
OwnerObserveClose ==
    /\ panic = "none"
    /\ UNCHANGED pureVars
    /\ pcO = "recv"
    /\ recvOn \in senderClosed
    /\ pcO' = "idle"
    /\ observedClosed' = observedClosed \cup {recvOn}
    /\ seen' = [seen EXCEPT !["owner"] = TRUE]
    /\ UNCHANGED <<r, nStarts, pcG, amount, selCh, ticks, delivered,
                   senderClosed, doneClosed, recvOn, pcS, sendCh, panic,
                   stopCalls, stopCtx, stopRes, stopReturned, lateDelivery>>

\* the owner gives the receive up (it was one case of a select of its own)
OwnerLeave ==
    /\ panic = "none"
    /\ UNCHANGED pureVars
    /\ pcO = "recv"
    /\ recvOn \notin senderClosed
    /\ pcO' = "idle"
    /\ UNCHANGED <<r, nStarts, pcG, amount, selCh, ticks, delivered,
                   senderClosed, doneClosed, recvOn, pcS, sendCh, seen, panic,
                   stopCalls, stopCtx, stopRes, observedClosed, stopReturned,
                   lateDelivery>>

-----------------------------------------------------------------------------
(* Stop *)

\* the values a read of r.running by thread t can return: the field is written
\* by the goroutine without synchronisation, so a thread that has not
\* synchronised with the goroutine since its last write reads either value
RunningRead(t) == IF seen[t] THEN {r.running} ELSE BOOLEAN

\* the situation a Stop() call by t is made in
Ctx(t) ==
    IF nStarts = 0 THEN "unstarted"
    ELSE IF t = "owner" /\ nStarts \in observedClosed THEN "closed"
    ELSE "live"

\* if !r.running { return }, and otherwise the send statement r.done <- true is
\* reached (r.done is evaluated, the send has not completed)
StopCheckNoGuard(t) ==
    /\ panic = "none"
    /\ UNCHANGED pureVars
    /\ pcS[t] = "idle"
    /\ t = "owner" => pcO = "idle"
    /\ stopCalls < MaxStops
    /\ stopCalls' = stopCalls + 1
    /\ stopCtx' = [stopCtx EXCEPT ![t] = Ctx(t)]
    /\ pcS' = [pcS EXCEPT ![t] = "send"]
    /\ sendCh' = [sendCh EXCEPT ![t] = r.done]
    /\ stopRes' = [stopRes EXCEPT ![t] = "blocked"]
    /\ UNCHANGED <<r, nStarts, pcG, amount, selCh, ticks, delivered,
                   senderClosed, doneClosed, pcO, recvOn, seen, panic,
                   observedClosed, stopReturned, lateDelivery>>

StopCheck(t) ==
    /\ panic = "none"
    /\ UNCHANGED pureVars
    /\ pcS[t] = "idle"
    /\ t = "owner" => pcO = "idle"
    /\ stopCalls < MaxStops
    /\ stopCalls' = stopCalls + 1
    /\ stopCtx' = [stopCtx EXCEPT ![t] = Ctx(t)]
    /\ \E v \in RunningRead(t) :
         IF ~v
           THEN /\ stopRes' = [stopRes EXCEPT ![t] = "noop"]
                /\ stopReturned' = (stopReturned \/ nStarts >= 1)
                /\ UNCHANGED <<pcS, sendCh>>
           ELSE /\ pcS' = [pcS EXCEPT ![t] = "send"]
                /\ sendCh' = [sendCh EXCEPT ![t] = r.done]
                /\ stopRes' = [stopRes EXCEPT ![t] = "blocked"]
                /\ UNCHANGED stopReturned
    /\ UNCHANGED <<r, nStarts, pcG, amount, selCh, ticks, delivered,
                   senderClosed, doneClosed, pcO, recvOn, seen, panic,
                   observedClosed, lateDelivery>>

\* r.done <- true completes without a receiver (as a buffered send would)
StopSendNoWait(t, g) ==
    /\ panic = "none"
    /\ UNCHANGED pureVars
    /\ pcS[t] = "send"
    /\ sendCh[t] \notin doneClosed
    /\ pcG[g] \notin {"start", "exited"}
    /\ pcS' = [pcS EXCEPT ![t] = "idle"]
    /\ stopRes' = [stopRes EXCEPT ![t] = "sent"]
    /\ stopReturned' = TRUE
    /\ UNCHANGED <<r, nStarts, pcG, amount, selCh, ticks, delivered,
                   senderClosed, doneClosed, pcO, recvOn, sendCh, seen, panic,
                   stopCalls, stopCtx, observedClosed, lateDelivery>>

\* r.done <- true in Stop() meets case <-r.done of goroutine g: the channel is
\* unbuffered, so the send completes only in this rendezvous; Stop() returns
\* and the goroutine returns from its loop into the deferred calls
StopSend(t, g) ==
    /\ panic = "none"
    /\ UNCHANGED pureVars
    /\ pcS[t] = "send"
    /\ pcG[g] = "select"
    /\ selCh[g] = sendCh[t]
    /\ sendCh[t] \notin doneClosed
    /\ pcS' = [pcS EXCEPT ![t] = "idle"]
    /\ pcG' = [pcG EXCEPT ![g] = "d_running"]
    /\ stopRes' = [stopRes EXCEPT ![t] = "sent"]
    /\ seen' = [seen EXCEPT ![t] = TRUE]
    /\ stopReturned' = TRUE
    /\ UNCHANGED <<r, nStarts, amount, selCh, ticks, delivered, senderClosed,
                   doneClosed, pcO, recvOn, sendCh, panic, stopCalls, stopCtx,
                   observedClosed, lateDelivery>>

\* r.done <- true on a channel that is closed, or that is closed while the
\* send is blocked: panic: send on closed channel
StopPanic(t) ==
    /\ pcS[t] = "send"
    /\ panic = "none"
    /\ UNCHANGED pureVars
    /\ sendCh[t] \in doneClosed
    /\ panic' = "send on closed channel"
    /\ stopRes' = [stopRes EXCEPT ![t] = "panic"]
    /\ UNCHANGED <<r, nStarts, pcG, amount, selCh, ticks, delivered,
                   senderClosed, doneClosed, pcO, recvOn, pcS, sendCh, seen,
                   stopCalls, stopCtx, observedClosed, stopReturned,
                   lateDelivery>>

-----------------------------------------------------------------------------
(* The specifications of the stream *)

\* the stream of a Period on which Start() has not been called
NotStarted ==
    /\ nStarts = 0
    /\ pcG = <<>> /\ amount = <<>> /\ selCh = <<>>
    /\ ticks = <<>> /\ delivered = <<>>
    /\ senderClosed = {} /\ doneClosed = {}
    /\ pcO = "idle" /\ recvOn = 0
    /\ pcS = [t \in Threads |-> "idle"]
    /\ sendCh = [t \in Threads |-> 0]
    /\ seen = [t \in Threads |-> TRUE]
    /\ panic = "none"
    /\ stopCalls = 0
    /\ stopCtx = [t \in Threads |-> "none"]
    /\ stopRes = [t \in Threads |-> "none"]
    /\ observedClosed = {}
    /\ stopReturned = FALSE
    /\ lateDelivery = FALSE

\* the variables of the pure specifications, unused by the stream
NoCall ==
    /\ phase = "stream"
    /\ form = <<>> /\ s = <<>> /\ parsed = <<>> /\ given = <<>>
    /\ str = <<>> /\ str2 = <<>>
    /\ now = <<>> /\ nextOut = <<>> /\ calls = 0

\* a Period of one second (PT1S) with Repetitions in -1 .. MaxReps
Init ==
    /\ \E n \in -1..MaxReps : r = New(n, 0, 0, 0, 0, 0, 1)
    /\ NotStarted
    /\ NoCall

Goroutine(g) ==
    \/ GoRunning(g)
    \/ SelectTick(g)
    \/ Emit(g)
    \/ SigDone(g)
    \/ DeferRunning(g)
    \/ DeferCloseDone(g)
    \/ DeferCloseSender(g)

Owner ==
    \/ \E g \in Gs : OwnerRecv(g)
    \/ OwnerObserveClose
    \/ OwnerLeave

Stop(t) ==
    \/ StopCheck(t)
    \/ \E g \in Gs : StopSend(t, g)
    \/ StopPanic(t)

Next ==
    \/ Start
    \/ \E g \in Gs : Goroutine(g)
    \/ Owner
    \/ \E t \in Threads : Stop(t)

Spec == Init /\ [][Next]_vars

\* the scheduler runs a goroutine that can take a step, and the ticker keeps
\* firing: a step of the goroutine that stays possible is taken
FairSpec == Spec /\ WF_vars(\E g \in Gs : Goroutine(g))

NextRestart ==
    \/ Next
    \/ StartAgain
    \/ \E g \in Gs : RecvClosed(g)

SpecRestart == Init /\ [][NextRestart]_vars

-----------------------------------------------------------------------------
(* Properties of the stream *)

\* in a run with one Start() and no Stop() on a Period with Repetitions > 0
C1_Case == r.Repetitions > 0 /\ nStarts = 1 /\ stopCalls = 0

C1_Safe ==
    C1_Case =>
        /\ delivered[1] <= r.Repetitions
        /\ ticks[1] <= r.Repetitions
        /\ (1 \in senderClosed => ticks[1] = r.Repetitions)
        /\ (ticks[1] = r.Repetitions => pcG[1] \in ExitPath \cup {"sigdone"})
        /\ (ticks[1] < r.Repetitions => pcG[1] \in {"start", "select", "emit"})

\* C1: for Repetitions = N > 0, one Start() and no Stop(), at most N
\* timestamps are delivered on the returned channel whatever the consumer
\* does, no more than N ticks are processed, the channel is not closed before
\* the N-th tick has been processed, after the N-th tick the goroutine only
\* winds down, and (the goroutine being scheduled) the channel is then closed.
C1_BoundedStream ==
    /\ []C1_Safe
    /\ C1_Case ~> (1 \in senderClosed \/ stopCalls > 0)

\* a bounded stream of two ticks, one received and one dropped, has closed
C1_Witness ==
    /\ r.Repetitions = 2 /\ nStarts = 1 /\ stopCalls = 0
    /\ 1 \in senderClosed
    /\ delivered[1] = 1 /\ ticks[1] = 2

\* C2 (as claimed): for Repetitions < 0, once a Stop() called after Start()
\* returned has itself returned, the goroutine has taken the done signal (it
\* is winding down or has exited) and no timestamp is delivered afterwards.
C2_StopCancels ==
    (r.Repetitions < 0 /\ nStarts = 1 /\ stopReturned) =>
        (pcG[1] \in ExitPath /\ ~lateDelivery)

\* C3 (as claimed): a stream started on a Period with Repetitions = 0
\* delivers no timestamp.
C3_ZeroNeverFires ==
    r.Repetitions = 0 => \A g \in Gs : delivered[g] = 0

\* the Period is quiescent for thread t: never started, or t has seen the
\* channel of its one stream closed
Quiescent(t) ==
    \/ nStarts = 0
    \/ t = "owner" /\ nStarts = 1 /\ 1 \in observedClosed

\* C7: a Stop() called on a Period that was never started, or by the thread
\* that has observed the stream's channel closed, returns at once: it does not
\* reach the send on the done channel, does not block or panic, and changes no
\* field of the Period, no channel and nothing of the goroutine.
C7_StopNoOp ==
    [][\A t \in Threads :
         (StopCheck(t) /\ Quiescent(t)) =>
            /\ pcS'[t] = "idle"
            /\ stopRes'[t] = "noop"
            /\ panic' = "none"
            /\ UNCHANGED <<r, pcG, amount, selCh, senderClosed, doneClosed,
                           sendCh, delivered>>]_vars

\* the owner called Stop() after a bounded stream terminated by itself and it
\* saw the channel closed; the call returned without sending
C7_Witness ==
    /\ r.Repetitions > 0
    /\ stopCtx["owner"] = "closed" /\ stopRes["owner"] = "noop"
    /\ pcS["owner"] = "idle" /\ panic = "none"

\* the stream behind done channel c is running: its goroutine is in the loop
Looping(c) == {g \in Gs : selCh[g] = c /\ pcG[g] \in {"select", "emit"}}

\* C8 (as claimed): a Stop() on a running stream completes without waiting for
\* a step of the background activity: whenever a Stop() has reached its send,
\* a receiver is ready and the send can complete at once.
C8_StopNeverWaits ==
    \A t \in Threads :
        (pcS[t] = "send" /\ Looping(sendCh[t]) # {}) =>
            \E g \in Looping(sendCh[t]) : pcG[g] = "select"

\* C8 (amended): a Stop() that has reached its send returns only in a
\* rendezvous with the goroutine's receive of the done signal (it waits for
\* the goroutine to be back in its select), and at that moment the wind-down
\* has not begun: the running flag is still set and neither channel is closed.
C8_StopRendezvous ==
    [][\A t \in Threads :
         (pcS[t] = "send" /\ pcS'[t] = "idle") =>
            \E g \in Gs :
               /\ pcG[g] = "select" /\ selCh[g] = sendCh[t]
               /\ pcG'[g] = "d_running"
               /\ r'.running
               /\ g \notin senderClosed'
               /\ sendCh[t] \notin doneClosed']_vars

\* the owner's Stop() has returned from its send and the goroutine is about
\* to run its deferred calls
C8_Witness ==
    /\ stopRes["owner"] = "sent" /\ pcS["owner"] = "idle"
    /\ pcG[1] = "d_running" /\ r.running
    /\ 1 \notin senderClosed

\* C9 (as claimed): at most one goroutine started by Start() is alive for the
\* Period at any time.
C9_OneStream ==
    Cardinality({g \in Gs : pcG[g] # "exited"}) <= 1

\* C10 (as claimed): no send is performed on a done channel that has been
\* closed: Stop() never panics.
C10_NoSendOnClosed ==
    panic # "send on closed channel"

-----------------------------------------------------------------------------
(* The specification of Parse *)

\* a field that is not written
Absent == [text |-> <<>>, fits |-> TRUE, value |-> 0]

\* the numerals the texts are written with: their digits, whether the number
\* fits an int, and the number (1<<63 does not fit)
Numerals ==
    { [text |-> <<"7">>, fits |-> TRUE, value |-> 7],
      [text |-> <<"0", "1", "2">>, fits |-> TRUE, value |-> 12],
      [text |-> <<"9", "2", "2", "3", "3", "7", "2", "0", "3", "6",
                  "8", "5", "4", "7", "7", "5", "8", "0", "8">>,
       fits |-> FALSE, value |-> 0] }

OptNumerals == {Absent} \cup Numerals

\* the texts [R[n]/]P[nY][nM][nD][T[nH][nM][nS]], by their parts: clock fields
\* are written only after a T
Forms ==
    { f \in [kind : {"grammar"}, R : BOOLEAN, n : OptNumerals,
             Y : OptNumerals, M : OptNumerals, D : OptNumerals, T : BOOLEAN,
             H : OptNumerals, Mi : OptNumerals, S : OptNumerals] :
        /\ ~f.R => f.n = Absent
        /\ ~f.T => (f.H = Absent /\ f.Mi = Absent /\ f.S = Absent) }

\* a numeral with its unit letter, or nothing
Unit(x, unit) == IF x = Absent THEN <<>> ELSE x.text \o <<unit>>

\* the text of a form
Render(f) ==
    (IF f.R THEN <<"R">> \o f.n.text \o <<"/">> ELSE <<>>)
      \o <<"P">> \o Unit(f.Y, "Y") \o Unit(f.M, "M") \o Unit(f.D, "D")
      \o (IF f.T THEN <<"T">> \o Unit(f.H, "H") \o Unit(f.Mi, "M")
                        \o Unit(f.S, "S")
                 ELSE <<>>)

\* texts outside the grammar: no P at all, the empty text, a match that does
\* not start the text
OtherTexts ==
    { <<"g", "a", "r", "b", "a", "g", "e">>, <<>>,
      <<"x", "R", "2", "/", "P", "7", "D">> }

InitParse ==
    /\ \/ form \in Forms /\ s = Render(form)
       \/ s \in OtherTexts /\ form = [kind |-> "other"]
    /\ phase = "text"
    /\ parsed = <<>> /\ given = <<>> /\ str = <<>> /\ str2 = <<>>
    /\ now = <<>> /\ nextOut = <<>> /\ calls = 0
    /\ r = <<>>
    /\ NotStarted

DoParse ==
    /\ phase = "text"
    /\ parsed' = Parse(s)
    /\ phase' = "parsed"
    /\ UNCHANGED <<r, runVars, form, s, given, str, str2, now, nextOut, calls>>

NextParse == DoParse

SpecParse == InitParse /\ [][NextParse]_vars

-----------------------------------------------------------------------------
(* The specification of String *)

\* the Periods New constructs, with Repetitions in -1 .. MaxReps, components
\* in 0 .. MaxComp and one value per component that carries (13 months, 31
\* days, 25 hours, 90 minutes) or has two digits
Periods ==
    { New(n, y, mo, d, h, mi, sec) :
        n \in -1..MaxReps, y \in 0..MaxComp, mo \in 0..MaxComp \cup {13},
        d \in 0..MaxComp \cup {31}, h \in 0..MaxComp \cup {25},
        mi \in 0..MaxComp \cup {90}, sec \in 0..MaxComp \cup {50} }

InitFormat ==
    /\ r \in Periods
    /\ given = r
    /\ phase = "period"
    /\ form = <<>> /\ s = <<>> /\ parsed = <<>> /\ str = <<>> /\ str2 = <<>>
    /\ now = <<>> /\ nextOut = <<>> /\ calls = 0
    /\ NotStarted

\* r.String()
DoString ==
    /\ phase = "period"
    /\ str' = String(r)
    /\ phase' = "formatted"
    /\ UNCHANGED <<r, runVars, form, s, parsed, given, str2, now, nextOut, calls>>

\* Parse(r.String())
DoParseBack ==
    /\ phase = "formatted"
    /\ parsed' = Parse(str)
    /\ phase' = "reparsed"
    /\ UNCHANGED <<r, runVars, form, s, given, str, str2, now, nextOut, calls>>

\* String() of the Period Parse returned
DoStringAgain ==
    /\ phase = "reparsed"
    /\ parsed.err = "nil"
    /\ str2' = String(parsed.p)
    /\ phase' = "reformatted"
    /\ UNCHANGED <<r, runVars, form, s, parsed, given, str, now, nextOut, calls>>

NextFormat == DoString \/ DoParseBack \/ DoStringAgain

SpecFormat == InitFormat /\ [][NextFormat]_vars

-----------------------------------------------------------------------------
(* The specification of Next *)

\* the reference times: 2023-01-01T00:00:00Z (the tests' now) and
\* 2024-01-31T23:59:30Z (a leap year, a month end, half a minute to midnight)
RefTimes == {Date(2023, 1, 1, 0), Date(2024, 1, 31, 86370)}

InitNext ==
    /\ r \in Periods
    /\ given = r
    /\ now \in RefTimes
    /\ phase = "period"
    /\ nextOut = <<>> /\ calls = 0
    /\ form = <<>> /\ s = <<>> /\ parsed = <<>> /\ str = <<>> /\ str2 = <<>>
    /\ NotStarted

\* r.Next(now), called again and again with the same reference time
DoNext ==
    /\ calls < MaxCalls
    /\ LET res == PeriodNext(r, now)
       IN  /\ nextOut' = res.ret
           /\ r' = res.r
    /\ calls' = calls + 1
    /\ phase' = "next"
    /\ UNCHANGED <<runVars, form, s, parsed, given, str, str2, now>>

NextNext == DoNext

SpecNext == InitNext /\ [][NextNext]_vars

-----------------------------------------------------------------------------
(* Properties of Parse, String and Next *)

\* the fields Parse is to return for a form
WantRep(f) == IF ~f.R THEN 0 ELSE IF f.n = Absent THEN -1 ELSE f.n.value

FieldsAsWritten(p, f) ==
    /\ p.Repetitions = WantRep(f)
    /\ p.Year = f.Y.value /\ p.Month = f.M.value /\ p.Day = f.D.value
    /\ p.Hour = f.H.value /\ p.Minute = f.Mi.value /\ p.Second = f.S.value

\* every numeral of the form fits an int
AllFit(f) ==
    /\ f.n.fits /\ f.Y.fits /\ f.M.fits /\ f.D.fits
    /\ f.H.fits /\ f.Mi.fits /\ f.S.fits

\* C4 (as claimed): for every text of the form
\* [R[n]/]P[nY][nM][nD][T[nH][nM][nS]] Parse returns no error and a Period
\* with Repetitions 0 without R, -1 for a bare R, n for Rn, and each component
\* equal to its numeral, 0 when absent.
C4_ParseGrammar ==
    (phase = "parsed" /\ form.kind = "grammar") =>
        (parsed.err = "nil" /\ FieldsAsWritten(parsed.p, form))

\* C4 (amended): the same for every such text whose numerals all fit an int;
\* when a numeral does not fit (it is greater than 1<<63 - 1) Parse returns
\* the conversion's error and no Period.
C4_ParseGrammarInRange ==
    (phase = "parsed" /\ form.kind = "grammar") =>
        IF AllFit(form)
          THEN parsed.err = "nil" /\ FieldsAsWritten(parsed.p, form)
          ELSE parsed.err = "value out of range" /\ parsed.p = <<>>

\* R012/P7Y012M7DT012H7M012S has been parsed: months before the T, minutes
\* after it
C4_Witness ==
    /\ phase = "parsed" /\ form.kind = "grammar"
    /\ form.R /\ form.n.value = 12 /\ form.T
    /\ form.M.value = 12 /\ form.Mi.value = 7
    /\ AllFit(form)
    /\ parsed.err = "nil"
    /\ parsed.p.Repetitions = 12 /\ parsed.p.Month = 12 /\ parsed.p.Minute = 7

\* the seven public fields agree
SameFields(p, q) ==
    /\ p.Repetitions = q.Repetitions
    /\ p.Year = q.Year /\ p.Month = q.Month /\ p.Day = q.Day
    /\ p.Hour = q.Hour /\ p.Minute = q.Minute /\ p.Second = q.Second

SomeComponent(p) ==
    p.Year > 0 \/ p.Month > 0 \/ p.Day > 0 \/ p.Hour > 0 \/ p.Minute > 0 \/ p.Second > 0

\* C6 (as claimed): for a Period p with Repetitions >= 0 and a component
\* greater than zero, Parse(p.String()) returns no error and a Period with the
\* fields of p, and formatting that Period gives p.String() again.
C6_RoundTrip ==
    (phase \in {"reparsed", "reformatted"} /\ given.Repetitions >= 0
       /\ SomeComponent(given)) =>
        /\ parsed.err = "nil"
        /\ SameFields(parsed.p, given)
        /\ phase = "reformatted" => str2 = str

\* C5: Next returns the zero time when Repetitions is 0 and otherwise, for
\* positive and for negative Repetitions, the reference time advanced by Year,
\* Month and Day and then by Hour*3600 + Minute*60 + Second seconds; the
\* Period is left as it was constructed, by the first call and by the calls
\* after it, which return the same time.
C5_Next ==
    phase = "next" =>
        /\ r = given
        /\ nextOut =
             IF given.Repetitions = 0 THEN ZeroTime
             ELSE Add(AddDate(now, given.Year, given.Month, given.Day),
                      given.Hour * 3600 + given.Minute * 60 + given.Second)

\* an unbounded Period of 13 months, 31 days and 25 hours has been asked
\* twice for its next time
C5_Witness ==
    /\ phase = "next" /\ calls = 2
    /\ given.Repetitions < 0
    /\ given.Month = 13 /\ given.Day = 31 /\ given.Hour = 25
    /\ nextOut # ZeroTime
    /\ r = given

====
